---- MODULE Spec2Model ----
(***************************************************************************)
(* Model of the snake game engine (package snake, type GameEngine).       *)
(* The engine's fields are the variables; every public operation          *)
(* (NewGame, PlayNew, UpdateDirection, Tick) is one action.               *)
(***************************************************************************)
EXTENDS Integers, Sequences, FiniteSets, TLC

(* ---------------------------------------------------------------- bounds *)
\* Largest play area an engine is constructed with.
MaxWidth == 4
MaxHeight == 2
\* No scoring step is taken once the score has reached MaxScore.
MaxScore == 5
\* Caps of the history counters ticks and steps.
MaxTicks == 13
MaxSteps == 3
\* Where the play area does not bound a coordinate of the head (a dimension is
\* 0), no step takes it beyond MaxCoordinate.
MaxCoordinate == 3

(* ------------------------------------------------------------ primitives *)
\* Go's uint is 64 bits wide; TLC's integers are 32 bits wide, so the word is
\* scaled down.  What the engine relies on is kept: 0 - 1 wraps to the largest
\* value, and that value is larger than every coordinate of the play area.
UintModulus == 65536

USub(a, b) == (a - b + UintModulus) % UintModulus
UAdd(a, b) == (a + b) % UintModulus

StatusNew == "New"
StatusPlaying == "Playing"
StatusLost == "Lost"
Status == {StatusNew, StatusPlaying, StatusLost}

DirectionUp == "Up"
DirectionDown == "Down"
DirectionLeft == "Left"
DirectionRight == "Right"
Direction == {DirectionUp, DirectionDown, DirectionLeft, DirectionRight}

Point(x, y) == [X |-> x, Y |-> y]

isOpposite(d, dir) ==
    \/ (d = DirectionUp /\ dir = DirectionDown)
    \/ (d = DirectionDown /\ dir = DirectionUp)
    \/ (d = DirectionLeft /\ dir = DirectionRight)
    \/ (d = DirectionRight /\ dir = DirectionLeft)

(* ----------------------------------------------------------------- state *)
VARIABLES
    status, playAreaWidth, playAreaHeight, score, speed, tickThrottleCount,
    foodLocation, snakeBody, snakeDirection, snakeDirectionLastMoved,
    snakeShouldElongate,
    pc,           \* "ready" between calls, "placeFood" inside placeFood's loop
    newLocation,  \* placeFood's local: the candidate drawn last
    \* History variables: they record the calls made, the engine never reads them.
    lastOp,       \* the operation called last
    ret,          \* the status the last Tick returned ("none" otherwise)
    stepped,      \* the last call ran moveSnake
    ticks,        \* Tick calls that reached tickThrottle since the last reset
    steps,        \* simulation steps executed since the last reset
    sinceStep,    \* Tick calls that reached tickThrottle since the last step
    speedAtStep,  \* speed read by tickThrottle at the last step, 0 if none
    lastGap,      \* Tick calls from the step before the last to the last, 0 if none
    gapSpeed      \* speed read by tickThrottle at the step before the last

engine == <<status, playAreaWidth, playAreaHeight, score, speed,
            tickThrottleCount, foodLocation, snakeBody, snakeDirection,
            snakeDirectionLastMoved, snakeShouldElongate>>
cadence == <<ticks, steps, sinceStep, speedAtStep, lastGap, gapSpeed>>
history == <<lastOp, ret, stepped, cadence>>
vars == <<engine, pc, newLocation, history>>

(* ------------------------------------------------------------- NewGame *)
\* NewGame placing the food at three quarters of the width, rounded down.
InitialFoodThreeQuarters(w, h) == Point((w * 3) \div 4, h \div 2)

InitialFood(w, h) == Point((w \div 4) * 3, h \div 2)

\* NewGame listing the tail first.
InitialBodyTailFirst(w, h) ==
    << Point(USub(w \div 4, 1), h \div 2), Point(w \div 4, h \div 2) >>

InitialBody(w, h) ==
    << Point(w \div 4, h \div 2), Point(USub(w \div 4, 1), h \div 2) >>

ZeroPoint == Point(0, 0)

\* NewGame starting the throttle counter at a full interval instead of 0.
NewGameFieldsFullThrottle(st, sc, sp, cnt, food, body, dir, last, elong, w, h) ==
    /\ st = StatusNew
    /\ sc = 0
    /\ sp = 1
    /\ cnt = 10
    /\ food = InitialFood(w, h)
    /\ body = InitialBody(w, h)
    /\ dir = DirectionRight
    /\ last = DirectionRight
    /\ elong = FALSE

\* The fields NewGame assigns, as a predicate on their values after the call.
NewGameFields(st, sc, sp, cnt, food, body, dir, last, elong, w, h) ==
    /\ st = StatusNew
    /\ sc = 0
    /\ sp = 1
    /\ cnt = 0
    /\ food = InitialFood(w, h)
    /\ body = InitialBody(w, h)
    /\ dir = DirectionRight
    /\ last = DirectionRight
    /\ elong = FALSE

\* The history after a construction or a reset.
HistoryReset(op) ==
    /\ lastOp' = op
    /\ ret' = "none"
    /\ stepped' = FALSE
    /\ ticks' = 0
    /\ steps' = 0
    /\ sinceStep' = 0
    /\ speedAtStep' = 0
    /\ lastGap' = 0
    /\ gapSpeed' = 0

\* NewGameEngine(playAreaWidth, playAreaHeight), the arguments drawn from
\* widths and heights.
NewGameEngine(widths, heights) ==
    /\ playAreaWidth \in widths
    /\ playAreaHeight \in heights
    /\ NewGameFields(status, score, speed, tickThrottleCount, foodLocation,
                     snakeBody, snakeDirection, snakeDirectionLastMoved,
                     snakeShouldElongate, playAreaWidth, playAreaHeight)
    /\ pc = "ready"
    /\ newLocation = ZeroPoint
    /\ lastOp = "NewGameEngine"
    /\ ret = "none"
    /\ stepped = FALSE
    /\ ticks = 0
    /\ steps = 0
    /\ sinceStep = 0
    /\ speedAtStep = 0
    /\ lastGap = 0
    /\ gapSpeed = 0

Init == NewGameEngine(1..MaxWidth, 1..MaxHeight)

NewGame ==
    /\ pc = "ready"
    /\ NewGameFields(status', score', speed', tickThrottleCount', foodLocation',
                     snakeBody', snakeDirection', snakeDirectionLastMoved',
                     snakeShouldElongate', playAreaWidth, playAreaHeight)
    /\ HistoryReset("NewGame")
    /\ UNCHANGED <<playAreaWidth, playAreaHeight, pc, newLocation>>

PlayNew ==
    /\ pc = "ready"
    /\ \E st \in Status :
          NewGameFields(st, score', speed', tickThrottleCount', foodLocation',
                        snakeBody', snakeDirection', snakeDirectionLastMoved',
                        snakeShouldElongate', playAreaWidth, playAreaHeight)
    /\ status' = StatusPlaying
    /\ HistoryReset("PlayNew")
    /\ UNCHANGED <<playAreaWidth, playAreaHeight, pc, newLocation>>

(* ------------------------------------------------------ UpdateDirection *)
\* UpdateDirection guarding on the current direction only.
UpdatedDirectionCurrentOnly(cur, last, dir) ==
    IF cur = dir \/ isOpposite(cur, dir) THEN cur ELSE dir

\* UpdateDirection guarding on the last moved direction only.
UpdatedDirectionLastOnly(cur, last, dir) ==
    IF last = dir \/ isOpposite(last, dir) THEN cur ELSE dir

\* The value of snakeDirection after UpdateDirection(dir).
UpdatedDirection(cur, last, dir) ==
    IF cur = dir \/ isOpposite(cur, dir) \/ last = dir \/ isOpposite(last, dir)
    THEN cur
    ELSE dir

UpdateDirection(dir) ==
    /\ pc = "ready"
    /\ snakeDirection' = UpdatedDirection(snakeDirection, snakeDirectionLastMoved, dir)
    /\ lastOp' = "UpdateDirection"
    /\ ret' = "none"
    /\ stepped' = FALSE
    /\ UNCHANGED <<status, playAreaWidth, playAreaHeight, score, speed,
                   tickThrottleCount, foodLocation, snakeBody,
                   snakeDirectionLastMoved, snakeShouldElongate,
                   pc, newLocation, cadence>>

\* UpdateDirection(dir) immediately followed by UpdateDirection(the opposite of
\* dir): two calls of the operation above with no other call in between.
UpdateDirectionThenOpposite(dir) ==
    /\ pc = "ready"
    /\ \E opp \in Direction :
          /\ isOpposite(dir, opp)
          /\ snakeDirection' =
                UpdatedDirection(
                    UpdatedDirection(snakeDirection, snakeDirectionLastMoved, dir),
                    snakeDirectionLastMoved, opp)
    /\ lastOp' = "UpdateDirectionThenOpposite"
    /\ ret' = "none"
    /\ stepped' = FALSE
    /\ UNCHANGED <<status, playAreaWidth, playAreaHeight, score, speed,
                   tickThrottleCount, foodLocation, snakeBody,
                   snakeDirectionLastMoved, snakeShouldElongate,
                   pc, newLocation, cadence>>

(* ------------------------------------------------------------------ Tick *)
\* tickThrottle adding the speed bonus to the interval instead of subtracting it.
ThrottleResetAdds(sp) == UAdd(10, USub(sp, 1))

\* tickThrottle resetting the counter to one less, so that it counts the
\* executing call too.
ThrottleResetOneLess(sp) == USub(9, USub(sp, 1))

\* tickThrottle: the value the counter is reset to when a step executes.
ThrottleReset(sp) == USub(10, USub(sp, 1))

\* tickThrottle: the counter after the call, and whether the step executes.
tickThrottleNext(cnt, sp) == IF cnt = 0 THEN ThrottleReset(sp) ELSE cnt - 1
tickThrottle(cnt) == cnt = 0

\* moveSnake: the cell one step from the head in the given direction.
NextPoint(head, direction) ==
    CASE direction = DirectionUp -> Point(head.X, USub(head.Y, 1))
      [] direction = DirectionDown -> Point(head.X, UAdd(head.Y, 1))
      [] direction = DirectionLeft -> Point(USub(head.X, 1), head.Y)
      [] direction = DirectionRight -> Point(UAdd(head.X, 1), head.Y)

\* wouldMoveCauseLoss leaving the tail out of the intersection test.
wouldMoveCauseLossSkipsTail(st, next, body, w, h) ==
    \/ st = StatusLost
    \/ next.X < 0 \/ next.Y < 0 \/ next.X > USub(w, 1) \/ next.Y > USub(h, 1)
    \/ \E i \in 1..(Len(body) - 1) : next.X = body[i].X /\ next.Y = body[i].Y

\* wouldMoveCauseLoss testing the neck only.
wouldMoveCauseLossNeckOnly(st, next, body, w, h) ==
    \/ st = StatusLost
    \/ next.X < 0 \/ next.Y < 0 \/ next.X > USub(w, 1) \/ next.Y > USub(h, 1)
    \/ \E i \in 1..Len(body) : i <= 2 /\ next.X = body[i].X /\ next.Y = body[i].Y

\* wouldMoveCauseLoss without the upper bound on Y.
wouldMoveCauseLossNoUpperY(st, next, body, w, h) ==
    \/ st = StatusLost
    \/ next.X < 0 \/ next.Y < 0 \/ next.X > USub(w, 1)
    \/ \E i \in 1..Len(body) : next.X = body[i].X /\ next.Y = body[i].Y

wouldMoveCauseLoss(st, next, body, w, h) ==
    \/ st = StatusLost
    \/ next.X < 0 \/ next.Y < 0 \/ next.X > USub(w, 1) \/ next.Y > USub(h, 1)
    \/ \E i \in 1..Len(body) : next.X = body[i].X /\ next.Y = body[i].Y

\* moveSnake removing the tail whatever the elongation flag says.
MovedBodyAlwaysDropsTail(body, next, elong) ==
    LET grown == <<next>> \o body
    IN  SubSeq(grown, 1, Len(grown) - 1)

\* moveSnake removing the tail when the elongation flag is set, and only then.
MovedBodyDropsTailWhenElongating(body, next, elong) ==
    LET grown == <<next>> \o body
    IN  IF elong THEN SubSeq(grown, 1, Len(grown) - 1) ELSE grown

\* moveSnake never removing the tail.
MovedBodyNeverDropsTail(body, next, elong) == <<next>> \o body

\* moveSnake: the body after a valid move.
MovedBody(body, next, elong) ==
    LET grown == <<next>> \o body
    IN  IF ~elong THEN SubSeq(grown, 1, Len(grown) - 1) ELSE grown

\* moveSnake clearing the elongation flag before it tests the move.
MoveRejectedClearsFlag ==
    /\ snakeShouldElongate' = FALSE
    /\ UNCHANGED <<snakeBody, snakeDirectionLastMoved>>

\* moveSnake returning false: it has assigned nothing.
MoveRejected ==
    UNCHANGED <<snakeBody, snakeDirectionLastMoved, snakeShouldElongate>>

isInScorePosition(st, body, food) ==
    /\ st # StatusLost
    /\ body[1].X = food.X /\ body[1].Y = food.Y

\* placeFood: the points rand.Intn can draw, and the ones the loop accepts.
Candidates(w, h) == {Point(x, y) : x \in 0..(w - 1), y \in 0..(h - 1)}

\* placeFood rejecting the previous food point only, not its row and column.
ValidLocationOtherPoint(p, food, body) ==
    /\ ~(p.X = food.X /\ p.Y = food.Y)
    /\ ~(\E i \in 1..Len(body) : body[i] = p)

ValidLocation(p, food, body) ==
    /\ ~(p.X = food.X \/ p.Y = food.Y)
    /\ ~(\E i \in 1..Len(body) : body[i] = p)
ValidLocations(w, h, food, body) ==
    {p \in Candidates(w, h) : ValidLocation(p, food, body)}

Bump(n, cap) == IF n < cap THEN n + 1 ELSE n

\* Tick raising the speed on the score before the increment.
SpeedAfterScoreOldScore(sc, sp) == IF (sc - 1) % 5 = 0 THEN UAdd(sp, 1) ELSE sp

\* Tick: the speed after the score was raised to sc.
SpeedAfterScore(sc, sp) == IF sc % 5 = 0 THEN UAdd(sp, 1) ELSE sp

\* Tick.  runsIn: the statuses in which the call goes on to tickThrottle;
\* startsFrom: the statuses a call that got past the throttle turns into Playing;
\* cap: no scoring step is taken once the score has reached it.
TickCapped(runsIn, startsFrom, cap) ==
    /\ pc = "ready"
    /\ lastOp' = "Tick"
    /\ UNCHANGED <<playAreaWidth, playAreaHeight, snakeDirection>>
    /\ IF status \notin runsIn
       THEN /\ ret' = status
            /\ stepped' = FALSE
            /\ UNCHANGED <<status, score, speed, tickThrottleCount, foodLocation,
                           snakeBody, snakeDirectionLastMoved, snakeShouldElongate,
                           pc, newLocation, cadence>>
       ELSE
       /\ tickThrottleCount' = tickThrottleNext(tickThrottleCount, speed)
       /\ ticks' = Bump(ticks, MaxTicks)
       /\ IF ~tickThrottle(tickThrottleCount)
          THEN /\ ret' = status
               /\ stepped' = FALSE
               /\ sinceStep' = sinceStep + 1
               /\ UNCHANGED <<status, score, speed, foodLocation, snakeBody,
                              snakeDirectionLastMoved, snakeShouldElongate,
                              pc, newLocation, steps, speedAtStep, lastGap, gapSpeed>>
          ELSE
          /\ stepped' = TRUE
          /\ steps' = Bump(steps, MaxSteps)
          /\ sinceStep' = 0
          /\ speedAtStep' = speed
          /\ lastGap' = IF steps = 0 THEN 0 ELSE sinceStep + 1
          /\ gapSpeed' = speedAtStep
          /\ LET st == IF status \in startsFrom THEN StatusPlaying ELSE status
                 next == NextPoint(snakeBody[1], snakeDirection)
             IN
             IF wouldMoveCauseLoss(st, next, snakeBody, playAreaWidth, playAreaHeight)
             THEN /\ MoveRejected
                  /\ status' = StatusLost
                  /\ ret' = StatusLost
                  /\ UNCHANGED <<score, speed, foodLocation, pc, newLocation>>
             ELSE
             LET body == MovedBody(snakeBody, next, snakeShouldElongate) IN
             /\ snakeBody' = body
             /\ snakeDirectionLastMoved' = snakeDirection
             /\ status' = st
             /\ IF ~isInScorePosition(st, body, foodLocation)
                THEN /\ snakeShouldElongate' = FALSE
                     /\ ret' = st
                     /\ UNCHANGED <<score, speed, foodLocation, pc, newLocation>>
                ELSE
                /\ score < cap
                /\ score' = score + 1
                /\ speed' = SpeedAfterScore(score + 1, speed)
                /\ LET valid == ValidLocations(playAreaWidth, playAreaHeight,
                                               foodLocation, body) IN
                   IF playAreaWidth = 0 \/ playAreaHeight = 0
                   THEN \* rand.Intn(0) panics
                        /\ pc' = "panic"
                        /\ snakeShouldElongate' = FALSE
                        /\ ret' = "none"
                        /\ UNCHANGED <<foodLocation, newLocation>>
                   ELSE
                   IF valid = {}
                   THEN \* every draw is rejected: the call does not return
                        /\ pc' = "placeFood"
                        /\ snakeShouldElongate' = FALSE
                        /\ ret' = "none"
                        /\ UNCHANGED <<foodLocation, newLocation>>
                   ELSE /\ foodLocation' \in valid
                        /\ snakeShouldElongate' = TRUE
                        /\ ret' = st
                        /\ UNCHANGED <<pc, newLocation>>

TickCore(runsIn, startsFrom) == TickCapped(runsIn, startsFrom, MaxScore)

\* Tick going on from every status and restarting play by itself.
TickRestartsPlay == TickCore(Status, {StatusNew, StatusLost})

\* Tick going on to tickThrottle and moveSnake whatever the status.
TickIgnoresStatus == TickCore(Status, {})

\* Tick of the engine with PlayNew: it does nothing unless the status is Playing.
Tick == TickCore({StatusPlaying}, {})

\* placeFood's loop when no cell is acceptable: one more rejected draw.
PlaceFoodRetry ==
    /\ pc = "placeFood"
    /\ newLocation' \in Candidates(playAreaWidth, playAreaHeight)
    /\ ~ValidLocation(newLocation', foodLocation, snakeBody)
    /\ UNCHANGED <<engine, pc, history>>

Next ==
    \/ NewGame
    \/ PlayNew
    \/ \E dir \in Direction : UpdateDirection(dir)
    \/ \E dir \in Direction : UpdateDirectionThenOpposite(dir)
    \/ Tick
    \/ PlaceFoodRetry

Spec == Init /\ [][Next]_vars

(* ------------------------------------ the game main starts, left untouched *)
\* main: NewGameEngine(20, 20)
MainWidth == 20
MainHeight == 20

InitMain == NewGameEngine({MainWidth}, {MainHeight})

\* The game is started and ticked, and no direction key is ever pressed.
NextMain ==
    \/ PlayNew
    \/ Tick

SpecMain == InitMain /\ [][NextMain]_vars

(* --------------------------------------- engines with a dimension that is 0 *)
\* NewGameEngine(0, h) and NewGameEngine(w, 0)
InitZero ==
    /\ NewGameEngine(0..MaxWidth, 0..MaxHeight)
    /\ (playAreaWidth = 0 \/ playAreaHeight = 0)

TickWithin ==
    /\ Tick
    /\ snakeBody'[1].X <= MaxCoordinate
    /\ snakeBody'[1].Y <= MaxCoordinate

NextZero ==
    \/ NewGame
    \/ PlayNew
    \/ \E dir \in Direction : UpdateDirection(dir)
    \/ TickWithin

SpecZero == InitZero /\ [][NextZero]_vars

(* ----------------------------------- a caller that writes to SnakeBody() *)
\* SnakeBody returns ge.snakeBody itself: the slice the caller gets shares its
\* array with the engine's, so body := ge.SnakeBody(); body[i] = p assigns the
\* engine's element i.
SnakeBodyWrite(i, p) ==
    /\ pc = "ready"
    /\ i \in 1..Len(snakeBody)
    /\ snakeBody' = [snakeBody EXCEPT ![i] = p]
    /\ lastOp' = "SnakeBodyWrite"
    /\ ret' = "none"
    /\ stepped' = FALSE
    /\ UNCHANGED <<status, playAreaWidth, playAreaHeight, score, speed,
                   tickThrottleCount, foodLocation, snakeDirection,
                   snakeDirectionLastMoved, snakeShouldElongate,
                   pc, newLocation, cadence>>

\* The game is started and ticked, and the caller writes the zero Point.
NextCaller ==
    \/ PlayNew
    \/ Tick
    \/ \E i \in 1..(2 + MaxScore) : SnakeBodyWrite(i, ZeroPoint)

SpecCaller == Init /\ [][NextCaller]_vars

(* ------------------------- the engine of gameengine/snake: Tick starts play *)
\* Tick of the engine without PlayNew: it returns early when the game is lost,
\* and the call that gets past the throttle while New turns the status Playing.
TickAuto == TickCore({StatusNew, StatusPlaying}, {StatusNew})

NextAuto ==
    \/ NewGame
    \/ \E dir \in Direction : UpdateDirection(dir)
    \/ TickAuto
    \/ PlaceFoodRetry

SpecAuto == Init /\ [][NextAuto]_vars

(* ------------------------------- a long game: the player follows a circuit *)
\* NewGameEngine(8, 8)
CircuitWidth == 8
CircuitHeight == 8
\* The game is followed until the score is CircuitScore.
CircuitScore == 50

\* The direction the player steers the head in: along the rows, to the right
\* on the even ones and to the left on the odd ones, column 0 being kept for the
\* way back up.  The circuit visits every cell, so that the snake following it
\* meets the food wherever placeFood puts it and never runs into itself.
CircuitDirection(p) ==
    IF p.X = 0 THEN (IF p.Y = 0 THEN DirectionRight ELSE DirectionUp)
    ELSE IF p.Y % 2 = 0
         THEN (IF p.X < CircuitWidth - 1 THEN DirectionRight ELSE DirectionDown)
         ELSE IF p.X > 1 THEN DirectionLeft
              ELSE IF p.Y < CircuitHeight - 1 THEN DirectionDown
                   ELSE DirectionLeft

InitCircuit == NewGameEngine({CircuitWidth}, {CircuitHeight})

\* GUIFrontEnd.Update while the status is New or Lost: Enter starts a game.
EnterPlayNew ==
    /\ status # StatusPlaying
    /\ PlayNew

\* The player presses an arrow key when the circuit turns.
Steer ==
    /\ CircuitDirection(snakeBody[1]) # snakeDirection
    /\ UpdateDirection(CircuitDirection(snakeBody[1]))

\* Tick, the player having steered.
TickOnCircuit ==
    /\ CircuitDirection(snakeBody[1]) = snakeDirection
    /\ TickCapped({StatusPlaying}, {}, CircuitScore)

NextCircuit ==
    \/ EnterPlayNew
    \/ Steer
    \/ TickOnCircuit

SpecCircuit == InitCircuit /\ [][NextCircuit]_vars

(* ================================================================ claims *)
\* The calls after which the engine is observable: the call has returned.
Returned == pc = "ready"

\* The cell one step from a cell, in unbounded integer arithmetic.
CellAhead(p, d) ==
    CASE d = "Up" -> Point(p.X, p.Y - 1)
      [] d = "Down" -> Point(p.X, p.Y + 1)
      [] d = "Left" -> Point(p.X - 1, p.Y)
      [] d = "Right" -> Point(p.X + 1, p.Y)

InPlayArea(p) ==
    /\ 0 <= p.X /\ p.X < playAreaWidth
    /\ 0 <= p.Y /\ p.Y < playAreaHeight

BodyCells(body) == {body[i] : i \in 1..Len(body)}

OppositeOf(d) ==
    CASE d = "Up" -> "Down"
      [] d = "Down" -> "Up"
      [] d = "Left" -> "Right"
      [] d = "Right" -> "Left"

\* A Tick call is about to execute a step, and does.
StepExecutes ==
    /\ Returned
    /\ status = StatusPlaying
    /\ tickThrottleCount = 0
    /\ lastOp' = "Tick"

(* ------------------------------------------------------------------- C1 *)
\* C1: Lost is terminal.  From a state whose status is Lost, every Tick and
\* every UpdateDirection call leaves status, score, speed, the body and the
\* food location unchanged, and every Tick returns Lost; only NewGame and
\* PlayNew leave Lost.
C1_LostIsTerminal ==
    [][ (status = StatusLost /\ lastOp' \notin {"NewGame", "PlayNew"})
        => /\ status' = StatusLost
           /\ UNCHANGED <<score, speed, snakeBody, foodLocation>>
           /\ (lastOp' = "Tick" => ret' = StatusLost) ]_vars

\* A Tick was called on a lost game and returned Lost without stepping.
C1_Witness ==
    /\ status = StatusLost
    /\ lastOp = "Tick"
    /\ ~stepped
    /\ ret = StatusLost

(* ------------------------------------------------------------------- C2 *)
\* C2: an executed step (Tick while Playing with the throttle counter at 0)
\* sets status to Lost if and only if the cell one step from the head in the
\* pending direction is outside the play area or is a cell of the body, the
\* tail included; otherwise status stays Playing and that cell is the new head.
C2_LossIffInvalidMove ==
    [][ StepExecutes =>
        LET ahead == CellAhead(snakeBody[1], snakeDirection)
            invalid == ~InPlayArea(ahead) \/ ahead \in BodyCells(snakeBody)
        IN  /\ (status' = StatusLost) <=> invalid
            /\ ~invalid => (status' = StatusPlaying /\ snakeBody'[1] = ahead) ]_vars

\* A step was lost by moving the head onto the cell the tail was on.
C2_Witness ==
    /\ lastOp = "Tick"
    /\ stepped
    /\ status = StatusLost
    /\ Len(snakeBody) >= 4
    /\ CellAhead(snakeBody[1], snakeDirection) = snakeBody[Len(snakeBody)]

(* ------------------------------------------------------------------- C3 *)
\* C3: for every width > 0 and height > 0, after construction and after every
\* call, every point of the body and the food location lie in the play area.
C3_AllPointsInPlayArea ==
    Returned =>
        /\ \A i \in 1..Len(snakeBody) : InPlayArea(snakeBody[i])
        /\ InPlayArea(foodLocation)

(* ------------------------------------------------------------------- C4 *)
\* C4: for every width > 0 and height > 0, in every state observable after a
\* call returns, the food location is not a point of the body.
C4_FoodNotOnBody ==
    Returned => foodLocation \notin BodyCells(snakeBody)

(* ------------------------------------------------------------------- C5 *)
\* C5: the body never contains the same point twice.
C5_NoDuplicateBodyPoints ==
    \A i, j \in 1..Len(snakeBody) : i # j => snakeBody[i] # snakeBody[j]

\* The snake has grown by two cells and has just moved.
C5_Witness ==
    /\ lastOp = "Tick"
    /\ stepped
    /\ status = StatusPlaying
    /\ Len(snakeBody) >= 4

(* ------------------------------------------------------------------- C6 *)
\* C6: UpdateDirection(d) sets the pending direction to d unless d is the
\* pending direction, its opposite, the last moved direction or its opposite;
\* then the pending direction is unchanged.  No other field changes.
C6_UpdateDirectionGuard ==
    [][ \A d \in Direction : UpdateDirection(d) =>
        /\ snakeDirection' =
              IF d \in {snakeDirection, OppositeOf(snakeDirection),
                        snakeDirectionLastMoved, OppositeOf(snakeDirectionLastMoved)}
              THEN snakeDirection
              ELSE d
        /\ UNCHANGED <<status, score, speed, tickThrottleCount, snakeBody,
                       foodLocation, snakeDirectionLastMoved, snakeShouldElongate,
                       playAreaWidth, playAreaHeight>> ]_vars

\* An UpdateDirection call was accepted while playing.
C6_Witness ==
    /\ lastOp = "UpdateDirection"
    /\ status = StatusPlaying
    /\ snakeDirection # snakeDirectionLastMoved

(* ------------------------------------------------------------------- C7 *)
\* C7 as stated: UpdateDirection(d) immediately followed by
\* UpdateDirection(opposite of d) leaves the pending direction as it was before
\* the first call.
C7_Original ==
    [][ \A d \in Direction : UpdateDirectionThenOpposite(d) =>
        snakeDirection' = snakeDirection ]_vars

\* C7 amended: the second call is always rejected, so after the two calls the
\* pending direction is the one the first call left: d if the first call was
\* accepted, the previous pending direction otherwise.
C7_SecondCallRejected ==
    [][ \A d \in Direction : UpdateDirectionThenOpposite(d) =>
        snakeDirection' =
            IF d \in {snakeDirection, OppositeOf(snakeDirection),
                      snakeDirectionLastMoved, OppositeOf(snakeDirectionLastMoved)}
            THEN snakeDirection
            ELSE d ]_vars

\* The two calls were made after a step and the first one was accepted.
C7_Witness ==
    /\ lastOp = "UpdateDirectionThenOpposite"
    /\ steps >= 1
    /\ snakeDirection # snakeDirectionLastMoved

(* ------------------------------------------------------------------- C8 *)
\* C8 as stated: after a reset into Playing, fewer than 10 Tick calls execute
\* no step and exactly 10 Tick calls execute exactly one.
C8_Original ==
    /\ (ticks < 10 => steps = 0)
    /\ (ticks = 10 => steps = 1)

\* C8 amended: after a reset into Playing the first Tick call executes a step
\* (the throttle counter starts at 0); the 10 following calls execute none and
\* the 12th call executes the second step.
C8_FirstTickSteps ==
    /\ (ticks = 0 => steps = 0)
    /\ (ticks \in 1..11 => steps = 1)
    /\ (ticks = 12 => steps = 2)

\* Eleven Tick calls were made since PlayNew and the game goes on.
C8_Witness ==
    /\ status = StatusPlaying
    /\ lastOp = "Tick"
    /\ ticks = 11
    /\ steps = 1

(* ------------------------------------------------------------------- C9 *)
BaseInterval(s) == IF 10 - (s - 1) > 1 THEN 10 - (s - 1) ELSE 1

\* tickThrottle's reset value in Go's unsigned arithmetic.
UnsignedReset(s) == (10 - (s - 1)) % UintModulus

\* C9 as stated: two consecutive steps executed at the same speed s are
\* BaseInterval(s) Tick calls apart.
C9_Original ==
    (lastGap # 0 /\ gapSpeed = speedAtStep) => lastGap = BaseInterval(gapSpeed)

\* C9 amended: two consecutive steps are (10 - (s - 1)) + 1 Tick calls apart,
\* s being the speed when the earlier of the two executed: the counter is
\* reset to 10 - (s - 1) and the step executes on the call that finds it 0.
C9_StepEveryResetPlusOne ==
    lastGap # 0 => lastGap = UnsignedReset(gapSpeed) + 1

\* Two consecutive steps were both executed at speed 2.
C9_Witness ==
    /\ lastGap # 0
    /\ gapSpeed = 2
    /\ speedAtStep = 2

(* ------------------------------------------------------------------ C10 *)
\* C10 as stated: after every call 0 <= throttle counter <= BaseInterval(speed),
\* speed being the current speed.
C10_Original ==
    Returned => (0 <= tickThrottleCount /\ tickThrottleCount <= BaseInterval(speed))

\* C10 amended: after every call the throttle counter is at most the value the
\* last executed step reset it to, 10 - (s - 1) for the speed s that step
\* started with, and it is 0 when no step was executed since the last reset.
C10_CounterWithinLastReset ==
    /\ 0 <= tickThrottleCount
    /\ tickThrottleCount <= (IF speedAtStep = 0 THEN 0 ELSE UnsignedReset(speedAtStep))

\* A step has just raised the speed to 2: the counter is 10, above BaseInterval(2).
C10_Witness ==
    /\ lastOp = "Tick"
    /\ stepped
    /\ speed = 2
    /\ speedAtStep = 1
    /\ tickThrottleCount = 10

(* ------------------------------------------------------------------ C11 *)
\* A Tick call executes a step that succeeds and puts the head on the food.
ScoringStep ==
    /\ StepExecutes
    /\ status' = StatusPlaying
    /\ snakeBody'[1] = foodLocation

\* A Tick call executes a step that succeeds.
SuccessfulStep ==
    /\ StepExecutes
    /\ status' = StatusPlaying

\* C11: the score grows by exactly 1 on every step whose new head is on the
\* food and changes on no other Tick; the speed grows by exactly 1 on exactly
\* the steps that make the score a positive multiple of 5 and changes on no
\* other Tick; neither ever decreases while playing.
C11_ScoreAndSpeedSteps ==
    [][ lastOp' = "Tick" =>
        /\ score' = score + (IF ScoringStep THEN 1 ELSE 0)
        /\ speed' = speed + (IF ScoringStep /\ score' > 0 /\ score' % 5 = 0
                             THEN 1 ELSE 0) ]_vars

\* The fifth food was just eaten and the speed went from 1 to 2.
C11_Witness ==
    /\ lastOp = "Tick"
    /\ stepped
    /\ ret = StatusPlaying
    /\ score = 5
    /\ speed = 2
    /\ snakeShouldElongate

(* ------------------------------------------------------------------ C12 *)
\* C12 as stated: an executed step leaves the body length unchanged if it is
\* not a scoring step and makes it exactly one greater if it is.
C12_Original ==
    [][ SuccessfulStep =>
        Len(snakeBody') = Len(snakeBody) + (IF ScoringStep THEN 1 ELSE 0) ]_vars

\* C12 amended: the growth is deferred by one step.  An executed step makes
\* the body exactly one longer if the elongation flag was set when it began
\* (the step before it was a scoring step) and leaves the length unchanged
\* otherwise, the scoring step itself included; no call but a reset shortens
\* the body.
C12_GrowthOnStepAfterScoring ==
    [][ lastOp' \notin {"NewGame", "PlayNew"} =>
        Len(snakeBody') = Len(snakeBody)
            + (IF SuccessfulStep /\ snakeShouldElongate THEN 1 ELSE 0) ]_vars

\* A scoring step has left the body at two cells, the growth still owed.
C12_Witness ==
    /\ lastOp = "Tick"
    /\ stepped
    /\ score = 1
    /\ snakeShouldElongate
    /\ Len(snakeBody) = 2

(* ------------------------------------------------------------------ C13 *)
\* C13 as stated: on the 20 x 20 board PlayNew leaves the head on (5,10) and the
\* food on (15,10); ticked with the direction left at Right, the engine has
\* score 1, speed 1 and a body of 3 cells when the head is on (15,10).
C13_Original ==
    /\ lastOp = "PlayNew" =>
          (snakeBody[1] = Point(5, 10) /\ foodLocation = Point(15, 10))
    /\ (status = StatusPlaying /\ snakeBody[1] = Point(15, 10)) =>
          (score = 1 /\ speed = 1 /\ Len(snakeBody) = 3)

\* C13 amended: as stated, but the body still has 2 cells while the head is on
\* (15,10); it has 3 cells from the next step on.
C13_EndToEnd ==
    /\ lastOp = "PlayNew" =>
          (snakeBody[1] = Point(5, 10) /\ foodLocation = Point(15, 10))
    /\ (status = StatusPlaying /\ snakeBody[1] = Point(15, 10)) =>
          (score = 1 /\ speed = 1 /\ Len(snakeBody) = 2
           /\ snakeDirection = DirectionRight)
    /\ (status = StatusPlaying /\ snakeBody[1].X > 15) =>
          (score = 1 /\ speed = 1 /\ Len(snakeBody) = 3)

\* The tenth step has just put the head on (15,10).
C13_Witness ==
    /\ lastOp = "Tick"
    /\ stepped
    /\ playAreaWidth = 20
    /\ snakeBody[1] = Point(15, 10)
    /\ snakeBody[2] = Point(14, 10)
    /\ score = 1

(* ------------------------------------------------------------------ C14 *)
\* C14: when a scoring step relocates the food, the new food location differs
\* from the previous one in X and in Y, lies in the play area and is not a cell
\* of the body, which by then has the new head.
C14_FoodRelocation ==
    [][ (ScoringStep /\ pc' = "ready") =>
        /\ foodLocation'.X # foodLocation.X
        /\ foodLocation'.Y # foodLocation.Y
        /\ 0 <= foodLocation'.X /\ foodLocation'.X < playAreaWidth
        /\ 0 <= foodLocation'.Y /\ foodLocation'.Y < playAreaHeight
        /\ foodLocation' \notin BodyCells(snakeBody') ]_vars

\* The food was relocated for the third time, the snake being 4 cells long.
C14_Witness ==
    /\ Returned
    /\ lastOp = "Tick"
    /\ stepped
    /\ snakeShouldElongate
    /\ score = 3
    /\ Len(snakeBody) = 4

C16_FoodPlacementCanEnd ==
    pc = "placeFood" =>
        \E p \in Candidates(playAreaWidth, playAreaHeight) :
            ValidLocation(p, foodLocation, snakeBody)

(* ------------------------------------------------------------------ C17 *)
\* C17: no engine with a width or a height of 0 is ever observable, the
\* construction with such a dimension fails.
C17_NoZeroDimension ==
    playAreaWidth # 0 /\ playAreaHeight # 0

(* ------------------------------------------------------------------ C18 *)
\* C18: the step taken Up with the head on Y = 0, or Left with the head on
\* X = 0, sets the status to Lost and moves nothing; no Tick after it changes
\* a field of the engine.
C18_UnderflowIsLoss ==
    [][ /\ ( StepExecutes
             /\ \/ (snakeDirection = "Up" /\ snakeBody[1].Y = 0)
                \/ (snakeDirection = "Left" /\ snakeBody[1].X = 0) )
           => ( /\ status' = StatusLost
                /\ ret' = StatusLost
                /\ UNCHANGED <<snakeBody, score, speed, foodLocation,
                               snakeDirectionLastMoved, snakeShouldElongate>> )
        /\ (status = StatusLost /\ lastOp' = "Tick") => UNCHANGED engine ]_vars

\* From the starting configuration the snake was turned Up and lost on the
\* step taken with the head on the top row.
C18_Witness ==
    /\ lastOp = "Tick"
    /\ stepped
    /\ status = StatusLost
    /\ snakeDirection = "Up"
    /\ snakeDirectionLastMoved = "Up"
    /\ snakeBody[1].Y = 0
    /\ score = 0

(* ------------------------------------------------------------------ C19 *)
\* C19 as stated: a Tick called while the status is not Playing changes no
\* field, the throttle counter included, and returns the current status.
C19_Original ==
    [][ (status # StatusPlaying /\ lastOp' = "Tick")
        => (UNCHANGED engine /\ ret' = status) ]_vars

\* The same statement, for the engine with PlayNew; there only PlayNew takes
\* the status from New to Playing.
C19_NoOpUnlessPlaying ==
    [][ /\ (status # StatusPlaying /\ lastOp' = "Tick")
           => (UNCHANGED engine /\ ret' = status)
        /\ (status = StatusNew /\ status' # StatusNew) => lastOp' = "PlayNew" ]_vars

\* C19 amended, for the engine without PlayNew: a Tick called while Lost
\* changes no field and returns Lost; a Tick called while New executes a step:
\* it resets the throttle counter and leaves the status Playing if the move was
\* valid and Lost if not.
C19_TickStartsPlayFromNew ==
    [][ lastOp' = "Tick" =>
        /\ status = StatusLost => (UNCHANGED engine /\ ret' = StatusLost)
        /\ status = StatusNew =>
              /\ stepped'
              /\ tickThrottleCount = 0
              /\ tickThrottleCount' = 10
              /\ LET ahead == CellAhead(snakeBody[1], snakeDirection) IN
                 status' = IF InPlayArea(ahead) /\ ahead \notin BodyCells(snakeBody)
                           THEN StatusPlaying
                           ELSE StatusLost ]_vars

\* The first Tick after NewGame moved the snake and started play.
C19_Witness ==
    /\ lastOp = "Tick"
    /\ stepped
    /\ ticks = 1
    /\ status = StatusPlaying
    /\ snakeBody[1].X = (playAreaWidth \div 4) + 1

(* ------------------------------------------------------------------ C20 *)
\* C20: what SnakeBody returns is a copy or a read-only view: no write the
\* caller makes to it changes the engine's body.
C20_CallerCannotWriteBody ==
    [][ lastOp' = "SnakeBodyWrite" => snakeBody' = snakeBody ]_vars

(* ------------------------------------------------------------------ C21 *)
\* C21: a Tick that returns leaves the elongation flag set exactly if it
\* executed a scoring step.  The successful step that finds the flag set keeps
\* the tail (the body is one longer), clears the flag and is itself not a
\* scoring step; the successful step that finds the flag clear removes the tail
\* (the length is unchanged).  A step that loses and a Tick that executes no
\* step leave flag and length alone, and so does every UpdateDirection.
C21_ElongationFlag ==
    [][ /\ (Returned /\ lastOp' = "Tick" /\ pc' = "ready") =>
              /\ snakeShouldElongate' =
                    IF ScoringStep THEN TRUE
                    ELSE IF SuccessfulStep THEN FALSE
                    ELSE snakeShouldElongate
              /\ Len(snakeBody') = Len(snakeBody)
                    + (IF SuccessfulStep /\ snakeShouldElongate THEN 1 ELSE 0)
              /\ (SuccessfulStep /\ snakeShouldElongate) => ~snakeShouldElongate'
        /\ lastOp' \in {"UpdateDirection", "UpdateDirectionThenOpposite"} =>
              UNCHANGED <<snakeShouldElongate, snakeBody>> ]_vars

\* The step after the first scoring step has kept the tail and cleared the flag.
C21_Witness ==
    /\ lastOp = "Tick"
    /\ stepped
    /\ status = StatusPlaying
    /\ score = 1
    /\ ~snakeShouldElongate
    /\ Len(snakeBody) = 3

(* ------------------------------------------------------------------ C22 *)
\* C22: the step that loses the game changes the status to Lost and returns
\* Lost; the body, both directions, the elongation flag, the score, the speed
\* and the food location keep the values they had before that Tick.  (The
\* throttle counter was reset by tickThrottle before the move was tried.)
C22_LosingStepFrame ==
    [][ (StepExecutes /\ status' = StatusLost) =>
        /\ ret' = StatusLost
        /\ UNCHANGED <<snakeBody, snakeDirectionLastMoved, snakeDirection,
                       snakeShouldElongate, score, speed, foodLocation,
                       playAreaWidth, playAreaHeight>>
        /\ tickThrottleCount' = UnsignedReset(speed) ]_vars

\* The step after a scoring step ran into the right wall: the game is lost
\* with the elongation flag still set.
C22_Witness ==
    /\ lastOp = "Tick"
    /\ stepped
    /\ status = StatusLost
    /\ snakeShouldElongate
    /\ score = 1
    /\ snakeDirection = "Right"
    /\ snakeBody[1].X = playAreaWidth - 1

(* ------------------------------------------------------------------ C23 *)
\* C23: at every speed the game reaches, speed 11 and above included, the
\* value the throttle counter is reset to when a step executes is
\* max(1, 10 - (speed - 1)), which is never 0 and never a wrapped-around value.
C23_ResetIsBaseInterval ==
    [][ StepExecutes => tickThrottleCount' = BaseInterval(speed) ]_vars

(* ------------------------------------------------------------------ C24 *)
\* The move the next step would make is valid.
MoveIsValid ==
    LET ahead == CellAhead(snakeBody[1], snakeDirection)
    IN  InPlayArea(ahead) /\ ahead \notin BodyCells(snakeBody)

\* C24 as stated, for the engine whose Tick starts play: the status leaves New
\* only for Playing and only on a Tick whose step succeeds, and Lost is entered
\* only from Playing; no Tick takes the status from New to Lost.
C24_Original ==
    [][ /\ (status = StatusNew /\ status' # StatusNew) =>
              (status' = StatusPlaying /\ lastOp' = "Tick" /\ stepped')
        /\ (status # StatusLost /\ status' = StatusLost) =>
              status = StatusPlaying ]_vars

\* C24 amended: the status leaves New on the first Tick called while New,
\* which always executes a step: for Playing if the move is valid, directly
\* for Lost if it is not.  Lost is entered only by a Tick executing an invalid
\* move, from New or from Playing.
C24_FirstTickDecides ==
    [][ /\ (status = StatusNew /\ lastOp' = "Tick") =>
              /\ stepped'
              /\ status' = IF MoveIsValid THEN StatusPlaying ELSE StatusLost
        /\ (status = StatusNew /\ status' # StatusNew) => lastOp' = "Tick"
        /\ (status # StatusLost /\ status' = StatusLost) =>
              (lastOp' = "Tick" /\ stepped' /\ ~MoveIsValid) ]_vars

\* On the 4 x 2 board the snake was turned Down before the first Tick, which
\* took the status from New to Lost.
C24_Witness ==
    /\ lastOp = "Tick"
    /\ stepped
    /\ ticks = 1
    /\ status = StatusLost
    /\ playAreaWidth = 4
    /\ playAreaHeight = 2
    /\ snakeDirection = "Down"

(* ------------------------------------------------------------------ C25 *)
\* Every cell of the body but the head is next to the cell before it.
Connected(body) ==
    \A i \in 1..(Len(body) - 1) :
        \/ (body[i].X = body[i + 1].X /\ body[i].Y - body[i + 1].Y \in {-1, 1})
        \/ (body[i].Y = body[i + 1].Y /\ body[i].X - body[i + 1].X \in {-1, 1})

\* C25: the pending direction is never the opposite of the last moved
\* direction; so, the body being a connected path, the cell the next step
\* moves the head to is never the cell of the second segment.
C25_NoReversal ==
    /\ snakeDirection # OppositeOf(snakeDirectionLastMoved)
    /\ Connected(snakeBody) =>
          CellAhead(snakeBody[1], snakeDirection) # snakeBody[2]

\* The grown snake has moved Up or Down and was then turned again.
C25_Witness ==
    /\ lastOp = "UpdateDirection"
    /\ status = StatusPlaying
    /\ Connected(snakeBody)
    /\ Len(snakeBody) >= 3
    /\ snakeDirectionLastMoved \in {"Up", "Down"}
    /\ snakeDirection \in {"Left", "Right"}

(* ------------------------------------------------------------------ C26 *)
\* C26: while the pending direction differs from the last moved direction
\* every UpdateDirection call, whatever its argument, is rejected; a call is
\* accepted only while the two are equal and makes them differ; and they
\* become equal again only by an executed step or a reset.  So at most one call
\* is accepted between two steps, or between a reset and the first step.
C26_OneUpdatePerStep ==
    [][ /\ ( /\ lastOp' \in {"UpdateDirection", "UpdateDirectionThenOpposite"}
             /\ snakeDirection # snakeDirectionLastMoved )
              => snakeDirection' = snakeDirection
        /\ ( /\ lastOp' \in {"UpdateDirection", "UpdateDirectionThenOpposite"}
             /\ snakeDirection' # snakeDirection )
              => ( /\ snakeDirection = snakeDirectionLastMoved
                   /\ snakeDirection' # snakeDirectionLastMoved' )
        /\ ( /\ snakeDirection # snakeDirectionLastMoved
             /\ snakeDirection' = snakeDirectionLastMoved' )
              => (stepped' \/ lastOp' \in {"NewGame", "PlayNew"}) ]_vars

\* Between a reset and the first step UpdateDirection(Down) was accepted and
\* the UpdateDirection(Up) that followed was rejected.
C26_Witness ==
    /\ lastOp = "UpdateDirectionThenOpposite"
    /\ steps = 0
    /\ snakeDirection = "Down"
    /\ snakeDirectionLastMoved = "Right"

(* ------------------------------------------------------------------ C27 *)
\* C27: after every call the body has 2 + score cells, less one exactly when
\* the elongation flag is set: the growth owed for the last food is
\* outstanding exactly while the flag is set, and it stays so once the game is
\* lost.
C27_LengthFollowsScore ==
    Returned =>
        Len(snakeBody) = 2 + score - (IF snakeShouldElongate THEN 1 ELSE 0)

\* The step after the second scoring step lost the game and a Tick was called
\* after that: the body still has 3 cells, the flag is still set.
C27_Witness ==
    /\ lastOp = "Tick"
    /\ ~stepped
    /\ status = StatusLost
    /\ snakeShouldElongate
    /\ score = 2
    /\ Len(snakeBody) = 3

====
